---- MODULE Spec2Model ----
(***************************************************************************)
(* Model of examples/browser-debugging/scripts/cdp-console.py: the         *)
(* CDPConsole session (connect handshake, the run read loop, the           *)
(* handle_message dispatcher, send_command correlation, close).            *)
(*                                                                         *)
(* asyncio is cooperative: code between two awaits that really suspend is  *)
(* one atomic step.  The main task runs connect() and then run(); run()    *)
(* awaits handle_message() inline, so while a handler is suspended in      *)
(* send_command the loop reads no frame.  The only other task is the one   *)
(* the signal handler creates for close().                                 *)
(***************************************************************************)
EXTENDS Integers, Sequences, FiniteSets, TLC

\* ---------------------------------------------------------------- bounds
MaxFrames == 2          \* frames the peer puts on the channel in one run

\* ------------------------------------------------------ program constants
HandshakeIds == 3       \* connect(): self.msg_id = 3
FetchTimeout == 2       \* get_object_properties: wait_for(..., timeout=2.0)
CommandTimeout == 5     \* send_command: timeout=5.0

HandshakeMethods_swapped == <<"Console.enable", "Runtime.enable", "Log.enable">>

HandshakeMethods == <<"Runtime.enable", "Console.enable", "Log.enable">>


VARIABLES
    pc,          \* position of the main task: start, handshake, run, await, done, exit
    hs,          \* handshake commands written so far by connect()
    ws,          \* the channel: none, open, closing, closed
    running,     \* self.running
    msg_id,      \* self.msg_id
    pending,     \* self.pending: id -> state of its Future
    closePc,     \* position of the close() task: idle, closing, done
    inbox,       \* frames that arrived on the channel and are not read yet
    nArrived,    \* frames that arrived so far
    received,    \* frames the read loop took so far, in order
    cur,         \* locals of the handler in progress
    wire,        \* every ws.send of a command, in order
    resolutions, \* every resolution applied to a request, in order
    out,         \* printed lines, in order
    mat          \* one call of format_arg or get_object_properties on its own

vars == <<pc, hs, ws, running, msg_id, pending, closePc, inbox, nArrived,
          received, cur, wire, resolutions, out, mat>>

\* ------------------------------------------------------------ descriptors
\* A preview: its listed properties and its overflow flag.
NoPreview == [properties |-> <<>>, overflow |-> FALSE]

\* One property of a preview (lines 104-105): has_name is "name" in prop.
PreviewProp(has_name, name, has_value, value, has_description, description) ==
    [has_name |-> has_name, name |-> name, has_value |-> has_value, value |-> value,
     has_description |-> has_description, description |-> description]

\* A descriptor with no key at all.  has_value is "value" in arg, composite
\* is isinstance(arg["value"], (dict, list)), value is the text of the
\* value; objectId and className are "" when the key is absent.
EmptyDesc ==
    [type |-> "", has_value |-> FALSE, value |-> "", composite |-> FALSE,
     has_preview |-> FALSE, preview |-> NoPreview, className |-> "",
     objectId |-> "", has_description |-> FALSE, description |-> ""]

\* A console argument descriptor with a scalar value, or with only a handle.
ScalarArg(v) == [EmptyDesc EXCEPT !.type = "number", !.has_value = TRUE, !.value = v]
HandleArg(o) == [EmptyDesc EXCEPT !.type = "object", !.objectId = o]

CompositeArg(v) ==
    [EmptyDesc EXCEPT !.type = "object", !.has_value = TRUE, !.value = v,
                      !.composite = TRUE]
PreviewArg(preview, className, o) ==
    [EmptyDesc EXCEPT !.type = "object", !.has_preview = TRUE, !.preview = preview,
                      !.className = className, !.objectId = o]
DescribedArg(type, description) ==
    [EmptyDesc EXCEPT !.type = type, !.has_description = TRUE,
                      !.description = description]
TypedArg(type) == [EmptyDesc EXCEPT !.type = type]

\* The argument lists of the console-call events the peer sends.
ConsoleArgLists ==
    {<<>>,
     <<ScalarArg("5")>>,
     <<HandleArg("o1")>>,
     <<ScalarArg("5"), HandleArg("o1")>>,
     <<HandleArg("o1"), ScalarArg("5")>>,
     <<HandleArg("o1"), HandleArg("o2")>>}

\* Length of the longest list of ConsoleArgLists.
MaxArgs == CHOOSE n \in 0..8 : /\ \A a \in ConsoleArgLists : Len(a) <= n
                               /\ \E a \in ConsoleArgLists : Len(a) = n

\* Largest id a run can allocate: every argument of every frame fetched once.
MaxId == HandshakeIds + MaxFrames * MaxArgs

\* ----------------------------------------------------------------- frames
\* seq is the frame's place in the order of arrival (0 before it arrives).
\* For an exception event has_desc/desc are the exception object's
\* description and has_text/text the exceptionDetails text; for a console
\* event text is the call type, for a log entry its text.
Frame(kind, id, text, args) ==
    [kind |-> kind, id |-> id, text |-> text, args |-> args, seq |-> 0,
     has_text |-> text # "", has_desc |-> FALSE, desc |-> ""]

ReplyFrame(id)     == Frame("reply", id, "", <<>>)
ConsoleFrame(args) == Frame("console", 0, "log", args)
ExceptionFrame     == Frame("exception", 0, "", <<>>)
ExceptionFrameWith(has_desc, desc, has_text, text) ==
    [ExceptionFrame EXCEPT !.has_desc = has_desc, !.desc = desc,
                           !.has_text = has_text, !.text = text]
LogFrame(text)     == Frame("log", 0, text, <<>>)
MalformedFrame     == Frame("malformed", 0, "", <<>>)
NonObjectFrame     == Frame("nonobject", 0, "", <<>>)

EventFrames ==
    {ConsoleFrame(a) : a \in ConsoleArgLists}
        \cup {ExceptionFrame, LogFrame(""), LogFrame("t")}

IsEvent(f) == f.kind \in {"console", "exception", "log"}

\* An event frame that prints when handled.
ProducesOutput(f) ==
    \/ f.kind = "exception"
    \/ f.kind = "log" /\ f.text # ""
    \/ f.kind = "console" /\ Len(f.args) > 0

\* -------------------------------------------------------------- utilities
Line(frame, tag, body) == [frame |-> frame, tag |-> tag, body |-> body]

NoCur == [frame |-> 0, type |-> "", args |-> <<>>, idx |-> 0,
          simple_parts |-> <<>>, complex_parts |-> <<>>, awaitId |-> 0]

Pop_oldest(f, k) ==
    LET oldest == CHOOSE x \in DOMAIN f : \A y \in DOMAIN f : x <= y
    IN [x \in DOMAIN f \ {oldest} |-> f[x]]

Pop(f, k) == [x \in DOMAIN f \ {k} |-> f[x]]
Put(f, k, v) == [x \in DOMAIN f \cup {k} |-> IF x = k THEN v ELSE f[x]]

\* One resolution of request id: by the match path (lines 163-164, while
\* handling frame number frame) or by the timeout path (ending the fetch of
\* argument number arg of frame number frame).
Resolution(id, path, frame, arg) == [id |-> id, path |-> path, frame |-> frame, arg |-> arg]

EmptyMap == [x \in {} |-> "waiting"]

WrittenIds == {wire[i].id : i \in {j \in 1..Len(wire) : wire[j].ok}}

\* Ids the peer has replied to (it replies at most once to a command).
RepliedIds ==
    {inbox[i].id : i \in {j \in 1..Len(inbox) : inbox[j].kind = "reply"}}
        \cup {received[i].f.id : i \in {j \in 1..Len(received) : received[j].f.kind = "reply"}}

\* No call on its own is in progress.
NoMat ==
    [phase |-> "idle", entry |-> "", heap |-> <<>>, arg |-> EmptyDesc,
     object_id |-> "", max_depth |-> 0, node |-> <<>>, fetches |-> <<>>]

Init ==
    /\ mat = NoMat
    /\ pc = "start"
    /\ hs = 0
    /\ ws = "none"
    /\ running = TRUE
    /\ msg_id = 0
    /\ pending = EmptyMap
    /\ closePc = "idle"
    /\ inbox = <<>>
    /\ nArrived = 0
    /\ received = <<>>
    /\ cur = NoCur
    /\ wire = <<>>
    /\ resolutions = <<>>
    /\ out = <<>>

\* ------------------------------------------------------------ send_command
\* Lines 39-48: allocate the id, register the Future, write the command.
\* ws.send raises ConnectionClosed when the channel is not open; the entry
\* registered at line 46 stays in the map.  s carries the handler's locals
\* and the fields of self that the call changes.
send_command_reuse(s, method, wsOpen, isRunning) ==
    LET id == s.msg_id
    IN [s EXCEPT !.msg_id = id,
                 !.pending = Put(@, id, "waiting"),
                 !.wire = Append(@, [id |-> id, method |-> method, ok |-> wsOpen,
                                      by |-> "send_command", running |-> isRunning]),
                 !.awaitId = IF wsOpen THEN id ELSE 0]

send_command(s, method, wsOpen, isRunning) ==
    LET id == s.msg_id + 1
    IN [s EXCEPT !.msg_id = id,
                 !.pending = Put(@, id, "waiting"),
                 !.wire = Append(@, [id |-> id, method |-> method, ok |-> wsOpen,
                                      by |-> "send_command", running |-> isRunning]),
                 !.awaitId = IF wsOpen THEN id ELSE 0]

\* What wakes a caller suspended at line 50 under the wait_for of line 58:
\* the reply if the Future is done, else the timer that is due first.
WakeCause(futureState) ==
    IF futureState = "done" THEN "reply"
    ELSE IF FetchTimeout <= CommandTimeout THEN "fetch_timeout"
    ELSE "command_timeout"

\* State of the pending map after the wake-up.  The outer wait_for (line 58)
\* cancels send_command, which cancels the Future and skips line 52; the
\* inner wait_for (line 50) raises TimeoutError and line 52 pops the entry.
PendingAfterWake(p, id, cause) ==
    IF cause = "fetch_timeout" THEN
        IF id \in DOMAIN p THEN [p EXCEPT ![id] = "cancelled"] ELSE p
    ELSE IF cause = "command_timeout" THEN Pop(p, id)
    ELSE p

\* ---------------------------------------------------- get_object_properties
\* Lines 57-98: the value the fetch returns to format_arg.
Node(is_dict, text) == [is_dict |-> is_dict, text |-> text]

get_object_properties_uncaught(cause, has_result) ==
    CASE cause = "fetch_timeout"   -> Node(FALSE, "[Object]")
      [] cause = "send_error"      -> Node(FALSE, "[Object: ConnectionClosed]")
      [] cause = "command_timeout" -> Node(FALSE, "[Object]")
      [] cause = "reply"           -> IF has_result THEN Node(TRUE, <<>>)
                                      ELSE Node(FALSE, "[Object]")
      [] cause = "attribute_error" -> Node(FALSE, "[Object: AttributeError]")

get_object_properties(cause, has_result) ==
    CASE cause = "fetch_timeout"   -> Node(FALSE, "[Object: timeout]")
      [] cause = "send_error"      -> Node(FALSE, "[Object: ConnectionClosed]")
      [] cause = "command_timeout" -> Node(FALSE, "[Object]")
      [] cause = "reply"           -> IF has_result THEN Node(TRUE, <<>>)
                                      ELSE Node(FALSE, "[Object]")
      [] cause = "attribute_error" -> Node(FALSE, "[Object: AttributeError]")

\* ------------------------------------------------------------ preview_to_dict
\* A Python dict keeps its keys in insertion order, and assigning to a key
\* that is present replaces the value where the key stands.  A dict is the
\* sequence of its <<key, value>> entries.
DictSet(d, k, v) ==
    IF \E i \in 1..Len(d) : d[i][1] = k
    THEN [i \in 1..Len(d) |-> IF d[i][1] = k THEN <<k, v>> ELSE d[i]]
    ELSE Append(d, <<k, v>>)

\* Lines 104-105: the entry one listed property contributes.
PropName(prop) == IF prop.has_name THEN prop.name ELSE "?"
PropValue(prop) ==
    IF prop.has_value THEN prop.value
    ELSE IF prop.has_description THEN prop.description
    ELSE "..."

RECURSIVE PreviewEntries(_, _)
PreviewEntries(props, obj) ==
    IF props = <<>> THEN obj
    ELSE PreviewEntries(Tail(props),
                        DictSet(obj, PropName(Head(props)), PropValue(Head(props))))

\* Lines 100-108.
preview_to_dict(preview) ==
    LET obj == PreviewEntries(preview.properties, <<>>)
    IN IF preview.overflow THEN DictSet(obj, "...", "(truncated)") ELSE obj

\* ---------------------------------------------------------------- format_arg
\* A complex part: the json.dumps text of an inline composite value (kind
\* "json") or of a dict (kind "dict", its entries in order), under the
\* "[ClassName]" line when cls is not "".
Complex(kind, cls, text, entries) ==
    [kind |-> kind, cls |-> cls, text |-> text, entries |-> entries]

\* Lines 128-132 and 138-142: the class name decorates the dict unless it is
\* absent, "Object" or "Array".
Decorated(className, obj) ==
    Complex("dict", IF className \notin {"", "Object", "Array"} THEN className ELSE "",
            "", obj)

\* Lines 116-157 without the fetch of lines 135-143: the pair
\* (formatted, is_complex) of an argument that needs no fetch.
NeedsFetch(arg) ==
    ~arg.has_value /\ arg.type = "object" /\ ~arg.has_preview /\ arg.objectId # ""

format_arg(arg) ==
    IF arg.has_value
    THEN IF arg.composite
         THEN [formatted |-> Complex("json", "", arg.value, <<>>), is_complex |-> TRUE]
         ELSE [formatted |-> arg.value, is_complex |-> FALSE]
    ELSE IF arg.type = "object"
    THEN IF arg.has_preview
         THEN [formatted |-> Decorated(arg.className, preview_to_dict(arg.preview)),
               is_complex |-> TRUE]
         ELSE [formatted |-> IF arg.has_description THEN arg.description ELSE "[Object]",
               is_complex |-> FALSE]
    ELSE IF arg.has_description
    THEN [formatted |-> arg.description, is_complex |-> FALSE]
    ELSE IF arg.type = "undefined"
    THEN [formatted |-> "undefined", is_complex |-> FALSE]
    ELSE IF arg.type = "null"
    THEN [formatted |-> "null", is_complex |-> FALSE]
    ELSE [formatted |-> "str(arg)", is_complex |-> FALSE]

\* Lines 179-183: the part goes to the complex or to the simple list.
AddPart_front(s, text, is_complex) ==
    IF is_complex
    THEN [s EXCEPT !.idx = @ + 1, !.complex_parts = <<text>> \o @]
    ELSE [s EXCEPT !.idx = @ + 1, !.simple_parts = <<text>> \o @]

AddPart(s, text, is_complex) ==
    IF is_complex
    THEN [s EXCEPT !.idx = @ + 1, !.complex_parts = Append(@, text)]
    ELSE [s EXCEPT !.idx = @ + 1, !.simple_parts = Append(@, text)]

\* Lines 137-143: a fetched dict is complex, any other fetched value simple.
AddFetched(s, obj, className) ==
    IF obj.is_dict
    THEN AddPart(s, Decorated(className, obj.text), TRUE)
    ELSE AddPart(s, obj.text, FALSE)

\* Lines 178-183 with format_arg (110-157): format the arguments from s.idx
\* on, up to the first one whose fetch suspends (s.awaitId # 0) or to the
\* end of the list.
RECURSIVE FormatArgs(_, _, _, _)
FormatArgs(s, args, wsOpen, isRunning) ==
    IF s.idx > Len(args) THEN s
    ELSE LET arg == args[s.idx]
         IN IF NeedsFetch(arg)
            THEN LET s1 == send_command(s, "Runtime.getProperties", wsOpen, isRunning)
                 IN IF s1.awaitId # 0 THEN s1
                    ELSE FormatArgs(
                           AddFetched(s1, get_object_properties("send_error", FALSE),
                                      arg.className),
                           args, wsOpen, isRunning)
            ELSE FormatArgs(AddPart(s, format_arg(arg).formatted,
                                    format_arg(arg).is_complex),
                            args, wsOpen, isRunning)

\* Lines 186-194: the header line and one indented block per complex part.
ConsoleLines_and(frame, type, simple_parts, complex_parts) ==
    IF Len(simple_parts) = 0 \/ Len(complex_parts) = 0 THEN <<>>
    ELSE <<Line(frame, "console", <<type>> \o simple_parts)>>
           \o [i \in 1..Len(complex_parts) |-> Line(frame, "block", <<complex_parts[i]>>)]

ConsoleLines(frame, type, simple_parts, complex_parts) ==
    IF Len(simple_parts) = 0 /\ Len(complex_parts) = 0 THEN <<>>
    ELSE <<Line(frame, "console", <<type>> \o simple_parts)>>
           \o [i \in 1..Len(complex_parts) |-> Line(frame, "block", <<complex_parts[i]>>)]

\* Lines 187-188: the text of the header line, " ".join(simple_parts) after
\* the prefix and one space, as the sequence of its pieces.
RECURSIVE Join(_, _)
Join(parts, sep) ==
    IF Len(parts) = 0 THEN <<>>
    ELSE IF Len(parts) = 1 THEN parts
    ELSE <<Head(parts), sep>> \o Join(Tail(parts), sep)

HeaderText(type, simple_parts) ==
    <<"[console.", type, "]", " ">> \o Join(simple_parts, " ")

\* What run() does with an exception raised while handling one frame
\* (lines 220-223): the lines it prints and whether the loop goes on.
RunOnError_reraise(frame, error) ==
    IF error = "JSONDecodeError"
    THEN [lines |-> <<>>, continue |-> TRUE]
    ELSE [lines |-> <<Line(frame, "parse-error", <<error>>)>>, continue |-> FALSE]

RunOnError(frame, error) ==
    IF error = "JSONDecodeError"
    THEN [lines |-> <<>>, continue |-> TRUE]
    ELSE [lines |-> <<Line(frame, "parse-error", <<error>>)>>, continue |-> TRUE]

\* The handler either suspends in send_command or prints and returns to the loop.
Proceed(s, frame, type, args) ==
    /\ msg_id' = s.msg_id
    /\ wire' = s.wire
    /\ IF s.awaitId # 0
       THEN /\ pc' = "await"
            /\ cur' = [frame |-> frame, type |-> type, args |-> args, idx |-> s.idx,
                       simple_parts |-> s.simple_parts,
                       complex_parts |-> s.complex_parts, awaitId |-> s.awaitId]
            /\ out' = out
       ELSE /\ pc' = "run"
            /\ cur' = NoCur
            /\ out' = out \o ConsoleLines(frame, type, s.simple_parts, s.complex_parts)

ScanState(idx, simple_parts, complex_parts, p) ==
    [idx |-> idx, simple_parts |-> simple_parts, complex_parts |-> complex_parts,
     msg_id |-> msg_id, pending |-> p, wire |-> wire, awaitId |-> 0]

\* ------------------------------------------------------------------ connect
\* Lines 26-29: the channel is established (or connect fails and main exits).
connect_open ==
    /\ UNCHANGED mat
    /\ pc = "start"
    /\ \E ok \in BOOLEAN :
         IF ok
         THEN /\ pc' = "handshake"
              /\ ws' = "open"
              /\ out' = out
         ELSE /\ pc' = "exit"
              /\ ws' = ws
              /\ out' = Append(out, Line(0, "cdp-console", <<"Error">>))
    /\ UNCHANGED <<hs, running, msg_id, pending, closePc, inbox, nArrived, received,
                   cur, wire, resolutions>>

\* Lines 32-35: one activation command per step; the third sets msg_id.
connect_send ==
    /\ UNCHANGED mat
    /\ pc = "handshake"
    /\ IF ws = "open"
       THEN /\ wire' = Append(wire, [id |-> hs + 1, method |-> HandshakeMethods[hs + 1],
                                      ok |-> TRUE, by |-> "connect", running |-> running])
            /\ hs' = hs + 1
            /\ IF hs + 1 = Len(HandshakeMethods)
               THEN pc' = "run" /\ msg_id' = HandshakeIds
               ELSE pc' = pc /\ msg_id' = msg_id
            /\ out' = out
       ELSE /\ wire' = Append(wire, [id |-> hs + 1, method |-> HandshakeMethods[hs + 1],
                                      ok |-> FALSE, by |-> "connect", running |-> running])
            /\ pc' = "exit"
            /\ out' = Append(out, Line(0, "cdp-console", <<"Error">>))
            /\ UNCHANGED <<hs, msg_id>>
    /\ UNCHANGED <<ws, running, pending, closePc, inbox, nArrived, received, cur,
                   resolutions>>

\* -------------------------------------------------------------------- close
\* Line 228 and the start of ws.close() (lines 229-230).
close_start ==
    /\ UNCHANGED mat
    /\ closePc = "idle"
    /\ pc \notin {"done", "exit"}
    /\ running' = FALSE
    /\ IF ws = "none"
       THEN closePc' = "done" /\ ws' = ws
       ELSE closePc' = "closing" /\ ws' = IF ws = "open" THEN "closing" ELSE ws
    /\ UNCHANGED <<pc, hs, msg_id, pending, inbox, nArrived, received, cur, wire,
                   resolutions, out>>

\* ws.close() returns: close() has completed.
close_done ==
    /\ UNCHANGED mat
    /\ closePc = "closing"
    /\ pc \notin {"done", "exit"}
    /\ closePc' = "done"
    /\ ws' = "closed"
    /\ UNCHANGED <<pc, hs, running, msg_id, pending, inbox, nArrived, received, cur,
                   wire, resolutions, out>>

\* ------------------------------------------------------------- the channel
\* The peer puts a frame on the channel: an event, a malformed frame, or
\* its reply to a command that was written.
Arrive ==
    /\ UNCHANGED mat
    /\ ws \in {"open", "closing"}
    /\ pc \notin {"done", "exit"}
    /\ nArrived < MaxFrames
    /\ \E f \in EventFrames \cup {MalformedFrame, NonObjectFrame}
                \cup {ReplyFrame(i) : i \in WrittenIds \ RepliedIds} :
         inbox' = Append(inbox, [f EXCEPT !.seq = nArrived + 1])
    /\ nArrived' = nArrived + 1
    /\ UNCHANGED <<pc, hs, ws, running, msg_id, pending, closePc, received, cur,
                   wire, resolutions, out>>

\* The peer closes the channel.
ServerClose ==
    /\ UNCHANGED mat
    /\ ws \in {"open", "closing"}
    /\ pc \notin {"done", "exit"}
    /\ ws' = "closed"
    /\ UNCHANGED <<pc, hs, running, msg_id, pending, closePc, inbox, nArrived,
                   received, cur, wire, resolutions, out>>

\* ---------------------------------------------------------------------- run
\* Line 214: the iteration yields the frames in the order they arrived.
TakeFrame_newest(q) == [f |-> q[Len(q)], rest |-> SubSeq(q, 1, Len(q) - 1)]

TakeFrame(q) == [f |-> Head(q), rest |-> Tail(q)]

\* Lines 215-216: the loop stops at the first frame read after close().
LoopBreaks_never(isRunning) == FALSE

LoopBreaks(isRunning) == ~isRunning

\* Lines 162-165: the frame's id is a key of the pending map.
handle_reply(f, n) ==
    /\ pending' = Pop(pending, f.id)
    /\ resolutions' = Append(resolutions, Resolution(f.id, "match", n, 0))
    /\ IF pending[f.id] = "waiting"
       THEN out' = out
       ELSE out' = out \o RunOnError(n, "invalid state").lines
    /\ pc' = IF pending[f.id] = "waiting" \/ RunOnError(n, "invalid state").continue
             THEN "run" ELSE "done"
    /\ UNCHANGED <<msg_id, cur, wire>>

\* Line 200: the exception object's description, else the event's text,
\* else the literal.
ExceptionMessage_textfirst(f) ==
    IF f.has_text THEN f.text
    ELSE IF f.has_desc THEN f.desc
    ELSE "Unknown error"

ExceptionMessage(f) ==
    IF f.has_desc THEN f.desc
    ELSE IF f.has_text THEN f.text
    ELSE "Unknown error"

\* Lines 167-209: dispatch on the event name.
handle_event(f, n) ==
    CASE f.kind = "console" ->
           /\ Proceed(FormatArgs(ScanState(1, <<>>, <<>>, pending), f.args,
                                 ws = "open", running),
                      n, f.text, f.args)
           /\ pending' = FormatArgs(ScanState(1, <<>>, <<>>, pending), f.args,
                                    ws = "open", running).pending
           /\ UNCHANGED resolutions
      [] f.kind = "exception" ->
           /\ out' = Append(out, Line(n, "exception", <<ExceptionMessage(f)>>))
           /\ pc' = "run"
           /\ UNCHANGED <<msg_id, pending, cur, wire, resolutions>>
      [] f.kind = "log" ->
           /\ out' = IF f.text # "" THEN Append(out, Line(n, "log", <<"info", f.text>>))
                     ELSE out
           /\ pc' = "run"
           /\ UNCHANGED <<msg_id, pending, cur, wire, resolutions>>
      [] OTHER ->
           /\ pc' = "run"
           /\ UNCHANGED <<msg_id, pending, cur, wire, resolutions, out>>

\* Lines 214-223: one iteration of the read loop, up to the point where the
\* handler suspends or returns.
run_read ==
    /\ UNCHANGED mat
    /\ pc = "run"
    /\ inbox # <<>>
    /\ LET f == TakeFrame(inbox).f
           n == f.seq
       IN /\ inbox' = TakeFrame(inbox).rest
          /\ received' = Append(received, [f |-> f, dispatched |-> ~LoopBreaks(running)])
          /\ IF LoopBreaks(running)
             THEN /\ pc' = "done"
                  /\ UNCHANGED <<msg_id, pending, cur, wire, resolutions, out>>
             ELSE IF f.kind = "malformed"
             THEN /\ out' = out \o RunOnError(n, "JSONDecodeError").lines
                  /\ pc' = IF RunOnError(n, "JSONDecodeError").continue THEN "run" ELSE "done"
                  /\ UNCHANGED <<msg_id, pending, cur, wire, resolutions>>
             ELSE IF f.kind = "nonobject"
             THEN /\ out' = out \o RunOnError(n, "TypeError").lines
                  /\ pc' = IF RunOnError(n, "TypeError").continue THEN "run" ELSE "done"
                  /\ UNCHANGED <<msg_id, pending, cur, wire, resolutions>>
             ELSE IF f.kind = "reply" /\ f.id \in DOMAIN pending
             THEN handle_reply(f, n)
             ELSE handle_event(f, n)
    /\ UNCHANGED <<hs, ws, running, closePc, nArrived>>

\* Lines 214 and 224-225: the iteration ends when the channel is closed and
\* drained; an abnormal closure is reported.
run_end ==
    /\ UNCHANGED mat
    /\ pc = "run"
    /\ inbox = <<>>
    /\ ws = "closed"
    /\ pc' = "done"
    /\ \E abnormal \in BOOLEAN :
         out' = IF abnormal THEN Append(out, Line(0, "cdp-console", <<"Connection closed">>))
                ELSE out
    /\ UNCHANGED <<hs, ws, running, msg_id, pending, closePc, inbox, nArrived, received,
                   cur, wire, resolutions>>

\* The caller suspended at line 50 is woken: lines 50-53, then 57-98 of
\* get_object_properties, then the rest of the handler.  Only handle_message
\* sets a Future, and run() calls it from the task that is suspended here,
\* so the Future awaited is never done when the wake-up comes.
wake ==
    /\ UNCHANGED mat
    /\ pc = "await"
    /\ LET id == cur.awaitId
           cause == WakeCause(IF id \in DOMAIN pending THEN pending[id] ELSE "done")
           p == PendingAfterWake(pending, id, cause)
           obj == get_object_properties(cause, TRUE)
           s0 == AddFetched(ScanState(cur.idx, cur.simple_parts, cur.complex_parts, p),
                            obj, cur.args[cur.idx].className)
           s == FormatArgs(s0, cur.args, ws = "open", running)
       IN /\ Proceed(s, cur.frame, cur.type, cur.args)
          /\ pending' = s.pending
          /\ resolutions' = IF cause = "reply" THEN resolutions
                            ELSE Append(resolutions, Resolution(id, "timeout", cur.frame, cur.idx))
    /\ UNCHANGED <<hs, ws, running, closePc, inbox, nArrived, received>>

Next ==
    \/ connect_open
    \/ connect_send
    \/ close_start
    \/ close_done
    \/ Arrive
    \/ ServerClose
    \/ run_read
    \/ run_end
    \/ wake

Spec == Init /\ [][Next]_vars

\* The event loop runs every task that is ready and fires every timer that
\* is due; the peer and the signal are not obliged to act.
FairSpec == Spec /\ WF_vars(connect_send) /\ WF_vars(run_read) /\ WF_vars(wake)

\* ------------------------------------------------- formatting of one event
\* The descriptors and previews the formatting is exercised on.
StringArg(v) == [ScalarArg(v) EXCEPT !.type = "string"]

FmtPreviews ==
    {[properties |-> <<PreviewProp(TRUE, "a", TRUE, "1", FALSE, "")>>,
      overflow |-> FALSE],
     [properties |-> <<PreviewProp(TRUE, "a", TRUE, "1", FALSE, ""),
                       PreviewProp(TRUE, "b", FALSE, "", TRUE, "Object")>>,
      overflow |-> TRUE],
     [properties |-> <<PreviewProp(TRUE, "...", TRUE, "1", FALSE, ""),
                       PreviewProp(TRUE, "a", TRUE, "2", FALSE, "")>>,
      overflow |-> TRUE],
     [properties |-> <<PreviewProp(TRUE, "a", TRUE, "1", FALSE, ""),
                       PreviewProp(TRUE, "a", TRUE, "2", FALSE, "")>>,
      overflow |-> TRUE],
     [properties |-> <<PreviewProp(FALSE, "", FALSE, "", FALSE, "")>>,
      overflow |-> FALSE],
     [properties |-> <<>>, overflow |-> TRUE]}

FmtArgDescs ==
    {ScalarArg("5"), StringArg("x"), CompositeArg("{a: 1}"), HandleArg("o1"),
     DescribedArg("function", "function f()"), TypedArg("undefined"),
     TypedArg("null"), TypedArg("object"), TypedArg("symbol")}
        \cup {PreviewArg(p, "Object", "") : p \in FmtPreviews}
        \cup {PreviewArg(FmtPreviews_p, "Foo", "o1") :
                 FmtPreviews_p \in {q \in FmtPreviews : Len(q.properties) = 2}}

FmtArgLists ==
    {<<>>} \cup {<<a>> : a \in FmtArgDescs} \cup {<<a, b>> : a, b \in FmtArgDescs}

FmtFrames ==
    {ConsoleFrame(a) : a \in FmtArgLists}
        \cup {ExceptionFrameWith(d, IF d THEN "TypeError: x" ELSE "",
                                 t, IF t THEN "Uncaught" ELSE "") : d, t \in BOOLEAN}
        \cup {LogFrame(""), LogFrame("t")}

\* The session after the handshake (lines 25-35), nothing read yet.
Connected ==
    /\ pc = "run"
    /\ hs = HandshakeIds
    /\ ws = "open"
    /\ running = TRUE
    /\ msg_id = HandshakeIds
    /\ pending = EmptyMap
    /\ closePc = "idle"
    /\ received = <<>>
    /\ cur = NoCur
    /\ wire = [i \in 1..HandshakeIds |->
                 [id |-> i, method |-> HandshakeMethods[i], ok |-> TRUE,
                  by |-> "connect", running |-> TRUE]]
    /\ resolutions = <<>>
    /\ out = <<>>

\* One event frame is on the channel.
FmtInit ==
    /\ Connected
    /\ \E f \in FmtFrames : inbox = <<[f EXCEPT !.seq = 1]>>
    /\ nArrived = 1
    /\ mat = NoMat

FmtNext == run_read \/ wake

FmtSpec == FmtInit /\ [][FmtNext]_vars

\* ------------------------------------------- materialization on its own
\* Line 55: the default of max_depth, which format_arg's call (line 136) takes.
DefaultMaxDepth == 2

\* The largest max_depth get_object_properties is called with directly.
MaxDepthInput == 2

ObjectIds == {"o1", "o2", "o3"}

\* What the peer answers to Runtime.getProperties for one object: a reply
\* whose "result" is a list of property descriptors (kind "props"), a reply
\* without "result", a reply whose "result" is an object, silence, or a
\* channel that refuses the write.
Answer(kind, props) == [kind |-> kind, props |-> props]

\* Lines 74-75: one property descriptor; has_value is "value" in prop.
Prop(name, value_desc) ==
    [has_name |-> TRUE, name |-> name, has_value |-> TRUE, value |-> value_desc]

Heaps ==
    {[o1 |-> Answer("props", <<Prop("self", HandleArg("o1")),
                                Prop("n", ScalarArg("5"))>>),
      o2 |-> Answer("timeout", <<>>),
      o3 |-> Answer("noresult", <<>>)],
     [o1 |-> Answer("props", <<Prop("child", HandleArg("o2"))>>),
      o2 |-> Answer("props", <<Prop("child", HandleArg("o3"))>>),
      o3 |-> Answer("props", <<Prop("child", HandleArg("o1")),
                                Prop("v", ScalarArg("5"))>>)],
     [o1 |-> Answer("props",
                    <<Prop("p", PreviewArg([properties |->
                                               <<PreviewProp(TRUE, "a", TRUE, "1", FALSE, "")>>,
                                            overflow |-> TRUE], "Foo", "o2")),
                      Prop("q", PreviewArg(NoPreview, "Object", ""))>>),
      o2 |-> Answer("props", <<Prop("a", ScalarArg("1"))>>),
      o3 |-> Answer("object", <<>>)],
     [o1 |-> Answer("props",
                    <<Prop("d", DescribedArg("function", "function f()")),
                      Prop("u", TypedArg("undefined")),
                      Prop("z", TypedArg("null")),
                      Prop("o", TypedArg("object")),
                      [has_name |-> TRUE, name |-> "e", has_value |-> FALSE,
                       value |-> EmptyDesc],
                      [has_name |-> FALSE, name |-> "", has_value |-> TRUE,
                       value |-> ScalarArg("7")]>>),
      o2 |-> Answer("props", <<Prop("x", HandleArg("o3"))>>),
      o3 |-> Answer("timeout", <<>>)],
     [o1 |-> Answer("closed", <<>>),
      o2 |-> Answer("props", <<Prop("t", HandleArg("o1"))>>),
      o3 |-> Answer("props", <<Prop("a", ScalarArg("1")),
                                Prop("a", HandleArg("o3"))>>)]}

\* Top-level descriptors format_arg is called with on its own.
MatArgs ==
    {HandleArg("o1"), HandleArg("o2"), HandleArg("o3"),
     PreviewArg([properties |-> <<PreviewProp(TRUE, "a", TRUE, "1", FALSE, "")>>,
                 overflow |-> FALSE], "Foo", "o1"),
     ScalarArg("5"), CompositeArg("{a: 1}"), TypedArg("object")}

\* One Runtime.getProperties command: the object asked for, how many fetches
\* enclose it, the max_depth of its call, and whether the descriptor that
\* named the object carried a preview.
FetchRecord(object_id, level, max_depth, preview) ==
    [objectId |-> object_id, level |-> level, max_depth |-> max_depth,
     preview |-> preview]

\* Line 79: the guard of the branch that may fetch a nested object.
Recurses_inclusive(value_desc, max_depth) ==
    value_desc.type = "object" /\ max_depth >= 0

Recurses(value_desc, max_depth) ==
    value_desc.type = "object" /\ max_depth > 0

\* Lines 55-98 with every nested call.  GetProps returns the value and the
\* commands sent; PropsLoop is the loop of lines 73-92 from property i on,
\* acc holding obj and the commands sent so far.
RECURSIVE GetProps(_, _, _, _, _)
RECURSIVE PropsLoop(_, _, _, _, _, _)
GetProps(heap, object_id, max_depth, level, preview) ==
    LET sent == <<FetchRecord(object_id, level, max_depth, preview)>>
        answer == heap[object_id]
    IN CASE answer.kind = "timeout" ->
              [node |-> get_object_properties(WakeCause("waiting"), FALSE),
               fetches |-> sent]
         [] answer.kind = "closed" ->
              [node |-> get_object_properties("send_error", FALSE), fetches |-> sent]
         [] answer.kind = "noresult" ->
              [node |-> get_object_properties("reply", FALSE), fetches |-> sent]
         [] answer.kind = "object" ->
              [node |-> get_object_properties("attribute_error", TRUE),
               fetches |-> sent]
         [] answer.kind = "props" ->
              LET r == PropsLoop(heap, answer.props, 1, max_depth, level,
                                 [obj |-> <<>>, fetches |-> sent])
              IN [node |-> Node(TRUE, r.obj), fetches |-> r.fetches]

PropsLoop(heap, props, i, max_depth, level, acc) ==
    IF i > Len(props) THEN acc
    ELSE
        LET name == PropName(props[i])
            value_desc == IF props[i].has_value THEN props[i].value ELSE EmptyDesc
            set(v) == [acc EXCEPT !.obj = DictSet(@, name, v)]
            after ==
                IF value_desc.has_value THEN set(Node(FALSE, value_desc.value))
                ELSE IF Recurses(value_desc, max_depth) THEN
                    IF value_desc.objectId # "" THEN
                        LET r == GetProps(heap, value_desc.objectId, max_depth - 1,
                                          level + 1, value_desc.has_preview)
                        IN [obj |-> DictSet(acc.obj, name, r.node),
                            fetches |-> acc.fetches \o r.fetches]
                    ELSE IF value_desc.has_preview
                    THEN set(Node(TRUE, preview_to_dict(value_desc.preview)))
                    ELSE set(Node(FALSE, IF value_desc.has_description
                                         THEN value_desc.description ELSE "[Object]"))
                ELSE IF value_desc.has_description
                THEN set(Node(FALSE, value_desc.description))
                ELSE IF value_desc.type = "undefined"
                THEN set(Node(FALSE, "undefined"))
                ELSE acc
        IN PropsLoop(heap, props, i + 1, max_depth, level, after)

\* One call is about to be made: get_object_properties with any object and
\* any max_depth, or format_arg with any descriptor.
MatInit ==
    /\ Connected
    /\ inbox = <<>>
    /\ nArrived = 0
    /\ \/ \E h \in Heaps, o \in ObjectIds, d \in 0..MaxDepthInput :
            mat = [NoMat EXCEPT !.phase = "called", !.entry = "get_object_properties",
                                !.heap = h, !.object_id = o, !.max_depth = d]
       \/ \E h \in Heaps, a \in MatArgs :
            mat = [NoMat EXCEPT !.phase = "called", !.entry = "format_arg",
                                !.heap = h, !.arg = a, !.max_depth = DefaultMaxDepth]

\* Lines 55-98: the call of get_object_properties returns.
mat_get_object_properties ==
    /\ mat.phase = "called"
    /\ mat.entry = "get_object_properties"
    /\ LET r == GetProps(mat.heap, mat.object_id, mat.max_depth, 0, FALSE)
       IN mat' = [mat EXCEPT !.phase = "returned", !.node = r.node,
                             !.fetches = r.fetches]
    /\ UNCHANGED <<pc, hs, ws, running, msg_id, pending, closePc, inbox, nArrived,
                   received, cur, wire, resolutions, out>>

\* Lines 110-157: the call of format_arg returns; lines 135-143 fetch the
\* object of a descriptor that has an objectId and no preview.
mat_format_arg ==
    /\ mat.phase = "called"
    /\ mat.entry = "format_arg"
    /\ IF NeedsFetch(mat.arg)
       THEN LET r == GetProps(mat.heap, mat.arg.objectId, mat.max_depth, 0,
                              mat.arg.has_preview)
            IN mat' = [mat EXCEPT !.phase = "returned",
                                  !.node = IF r.node.is_dict
                                           THEN Node(TRUE, Decorated(mat.arg.className,
                                                                     r.node.text))
                                           ELSE r.node,
                                  !.fetches = r.fetches]
       ELSE LET f == format_arg(mat.arg)
            IN mat' = [mat EXCEPT !.phase = "returned",
                                  !.node = Node(f.is_complex, f.formatted)]
    /\ UNCHANGED <<pc, hs, ws, running, msg_id, pending, closePc, inbox, nArrived,
                   received, cur, wire, resolutions, out>>

MatNext == mat_get_object_properties \/ mat_format_arg

MatSpec == MatInit /\ [][MatNext]_vars

TypeOK ==
    /\ pc \in {"start", "handshake", "run", "await", "done", "exit"}
    /\ hs \in 0..HandshakeIds
    /\ ws \in {"none", "open", "closing", "closed"}
    /\ running \in BOOLEAN
    /\ msg_id \in 0..MaxId
    /\ DOMAIN pending \subseteq 1..MaxId
    /\ closePc \in {"idle", "closing", "done"}
    /\ Len(inbox) <= MaxFrames
    /\ Len(received) + Len(inbox) = nArrived /\ nArrived <= MaxFrames

\* ------------------------------------------------------------ observations
Last(q) == q[Len(q)]

\* The step is the wake-up of the suspended fetch, and it ends it by timeout.
TimeoutStep ==
    /\ pc = "await"
    /\ Len(resolutions') = Len(resolutions) + 1
    /\ Last(resolutions').path = "timeout"

\* Frame number n has been handled to the end.
Handled(n) == n <= Len(received) /\ ~(pc = "await" /\ cur.frame = n)

OutputOf(n) == {i \in 1..Len(out) : out[i].frame = n}

HasOutput(n) ==
    \E i \in OutputOf(n) : out[i].tag \in {"console", "exception", "log"}

TimeoutsOf(n) ==
    {i \in 1..Len(resolutions) :
        resolutions[i].path = "timeout" /\ resolutions[i].frame = n}

SendCommands == {i \in 1..Len(wire) : wire[i].by = "send_command"}

\* --------------------------------------------------------------------- C1
\* C1: every request sent through send_command is resolved exactly once.
\* Stated as: no request id has two resolutions applied to it (a reply is
\* never applied to a request that already ended by timeout).
C1_ResolvedAtMostOnce ==
    \A i, j \in 1..Len(resolutions) :
        i # j => resolutions[i].id # resolutions[j].id

\* --------------------------------------------------------------------- C2
\* C2: while a handler is suspended awaiting the reply to its nested
\* request, a reply frame with that id that has arrived on the channel
\* resolves the request: the fetch never ends by timeout while its reply
\* sits on the channel.
C2_ArrivedReplyResolves ==
    [][TimeoutStep =>
         ~\E i \in 1..Len(inbox) :
              inbox[i].kind = "reply" /\ inbox[i].id = cur.awaitId]_vars

\* --------------------------------------------------------------------- C3
\* C3: an outstanding fetch does not hold back independent events: when the
\* fetch ends by timeout, no event frame that arrived meanwhile is still
\* waiting on the channel for its output.
C3_EventsNotHeldBack ==
    [][TimeoutStep =>
         ~\E i \in 1..Len(inbox) : IsEvent(inbox[i]) /\ ProducesOutput(inbox[i])]_vars

\* --------------------------------------------------------------------- C4
\* C4: after a fetch has ended by timeout, the request's id is not a key of
\* the pending map.
C4_TimedOutEntryRemoved ==
    \A i \in 1..Len(resolutions) :
        resolutions[i].path = "timeout" => resolutions[i].id \notin DOMAIN pending

\* --------------------------------------------------------------------- C5
\* C5: after close completes the pending map is empty and no caller of
\* send_command remains suspended.
C5_CloseResolvesAll ==
    closePc = "done" => DOMAIN pending = {} /\ pc # "await"

\* --------------------------------------------------------------------- C6
\* C6: once close has set running to false, no command send is attempted.
C6_NoSendAfterClose ==
    \A i \in 1..Len(wire) : wire[i].running

\* --------------------------------------------------------------------- C7
\* C7: the handshake uses ids 1, 2, 3; every id allocated by send_command is
\* greater than 3 and greater than every id allocated before it.
C7_IdsStrictlyIncreasing ==
    /\ \A i, j \in 1..Len(wire) : i < j => wire[i].id < wire[j].id
    /\ \A i \in 1..Len(wire) :
         /\ wire[i].by = "connect" => wire[i].id = i /\ i <= HandshakeIds
         /\ wire[i].by = "send_command" => wire[i].id > HandshakeIds /\ i > HandshakeIds
    /\ \A k \in DOMAIN pending : HandshakeIds < k /\ k <= msg_id

C7_Witness ==
    /\ Cardinality(SendCommands) >= 2
    /\ \E i \in SendCommands : wire[i].ok

\* --------------------------------------------------------------------- C8
\* C8: a console event one of whose fetches timed out still emits its header
\* line; the line holds the sentinel "[Object: timeout]" and, with the
\* blocks under it, one result per argument, the scalar arguments' values
\* among them.
HeaderOf(n) == {i \in OutputOf(n) : out[i].tag = "console"}

C8_TimeoutDegradesToSentinel ==
    \A n \in 1..Len(received) :
        Handled(n) /\ TimeoutsOf(n) # {} =>
            /\ Cardinality(HeaderOf(n)) = 1
            /\ \A h \in HeaderOf(n) :
                 LET body == out[h].body
                     args == received[n].f.args
                 IN /\ Cardinality({k \in 2..Len(body) : body[k] = "[Object: timeout]"})
                         = Cardinality(TimeoutsOf(n))
                    /\ (Len(body) - 1) + Cardinality(OutputOf(n) \ {h}) = Len(args)
                    /\ \A t \in TimeoutsOf(n) : ~args[resolutions[t].arg].has_value
                    /\ \A a \in 1..Len(args) :
                         (args[a].has_value /\ ~args[a].composite) =>
                             \E k \in 2..Len(body) : body[k] = args[a].value

C8_Witness ==
    \E n \in 1..Len(received) :
        /\ Handled(n) /\ TimeoutsOf(n) # {}
        /\ \E a \in 1..Len(received[n].f.args) : received[n].f.args[a].has_value

\* --------------------------------------------------------------------- C9
\* C9: a frame that fails to parse prints nothing, any other error raised
\* while handling one frame prints exactly one diagnostic line, and in both
\* cases the read loop is back at its next iteration.
ReadStep == pc = "run" /\ Len(received') = Len(received) + 1 /\ running

C9_FrameErrorsContained ==
    [][ReadStep =>
         LET f == Head(inbox)
         IN /\ f.kind = "malformed" => out' = out /\ pc' = "run"
            /\ (\/ f.kind = "nonobject"
                \/ (f.kind = "reply" /\ f.id \in DOMAIN pending
                      /\ pending[f.id] = "cancelled"))
                 => /\ Len(out') = Len(out) + 1
                    /\ Last(out').tag = "parse-error"
                    /\ Last(out').frame = Len(received')
                    /\ SubSeq(out', 1, Len(out)) = out
                    /\ pc' = "run"]_vars

\* A frame was dispatched after a malformed one and after another failing one.
C9_Witness ==
    /\ Len(received) >= 2
    /\ received[1].dispatched /\ received[1].f.kind \in {"malformed", "nonobject"}
    /\ received[2].dispatched
    /\ pc = "run"

\* -------------------------------------------------------------------- C10
\* C10: every log-entry frame with text, exception frame and console-call
\* frame with an argument that the read loop dispatched eventually has its
\* output printed, whatever the frames before it were.  Printed lines are
\* never taken back, so this is: again and again no dispatched frame is
\* still owed its output.
Owed ==
    {n \in 1..Len(received) :
        received[n].dispatched /\ ProducesOutput(received[n].f) /\ ~HasOutput(n)}

C10_EveryEventPrints == []<>(Owed = {})

\* The second frame printed after a first frame that failed or whose fetch
\* timed out.
C10_Witness ==
    /\ Len(received) >= 2
    /\ \/ received[1].f.kind \in {"malformed", "nonobject"}
       \/ TimeoutsOf(1) # {}
    /\ received[2].f.kind = "console"
    /\ TimeoutsOf(2) # {}
    /\ HasOutput(2)

\* -------------------------------------------------------------------- C11
\* C11: output keeps the order of arrival: a line of a frame that arrived
\* later is never printed before a line of a frame that arrived earlier.
C11_OutputInArrivalOrder ==
    \A i, j \in 1..Len(out) :
        i < j /\ out[i].frame > 0 /\ out[j].frame > 0 => out[i].frame <= out[j].frame

\* Two frames printed, the first one after a fetch that timed out.
C11_Witness ==
    /\ TimeoutsOf(1) # {}
    /\ HasOutput(1)
    /\ HasOutput(2)

\* -------------------------------------------------------------------- C16
\* C16: a frame resolves a pending request only if the frame's id is that
\* request's id: handling a frame takes the frame's own id out of the map if
\* it is a key, applies a resolution to no other id, and leaves every other
\* entry of the map as it was.
C16_MatchedById ==
    [][ReadStep =>
         LET f == Last(received').f
         IN /\ \A k \in DOMAIN pending :
                 k # f.id => k \in DOMAIN pending' /\ pending'[k] = pending[k]
            /\ (f.kind = "reply" /\ f.id \in DOMAIN pending)
                 => /\ f.id \notin DOMAIN pending'
                    /\ resolutions' = Append(resolutions, Last(resolutions'))
                    /\ Last(resolutions').path = "match"
            /\ resolutions' # resolutions
                 => /\ Last(resolutions').id = f.id
                    /\ f.kind = "reply" /\ f.id \in DOMAIN pending]_vars

\* A reply took its own entry out of the map while an older entry stayed.
C16_Witness ==
    \E i \in 1..Len(resolutions) :
        /\ resolutions[i].path = "match"
        /\ \E k \in DOMAIN pending : k < resolutions[i].id

\* -------------------------------------------------------------------- C18
\* C18: connect writes Runtime.enable, Console.enable, Log.enable in that
\* order with ids 1, 2, 3 before any frame is read, registers none of them
\* in the pending map, and a reply to one of them resolves nothing and
\* prints nothing.
C18_Handshake ==
    /\ [](/\ pc \in {"start", "handshake"} => received = <<>> /\ DOMAIN pending = {}
          /\ received # <<>> => Len(wire) >= 3
          /\ \A i \in 1..Len(wire) :
               i <= 3 => /\ wire[i].by = "connect"
                         /\ wire[i].id = i
                         /\ wire[i].method =
                              <<"Runtime.enable", "Console.enable", "Log.enable">>[i]
          /\ received # <<>> => \A i \in 1..3 : wire[i].ok
          /\ DOMAIN pending \cap 1..3 = {})
    /\ [][(ReadStep /\ Last(received').f.kind = "reply" /\ Last(received').f.id \in 1..3)
            => /\ out' = out
               /\ resolutions' = resolutions
               /\ pending' = pending
               /\ pc' = "run"]_vars

\* The reply to a handshake command was read and dispatched.
C18_Witness ==
    \E n \in 1..Len(received) :
        /\ received[n].dispatched
        /\ received[n].f.kind = "reply" /\ received[n].f.id \in 1..3
        /\ DOMAIN pending # {}

\* -------------------------------------------------------------------- C19
\* C19: a frame read after close() has set running to False is not
\* dispatched: the step that reads it resolves nothing, starts no handler,
\* sends nothing and prints nothing, and it ends the read loop; with running
\* False the loop leaves its waiting position only by ending.
C19_NoDispatchAfterClose ==
    [][(pc = "run" /\ ~running) =>
         /\ Len(received') = Len(received) + 1
              => /\ pc' = "done"
                 /\ out' = out /\ pending' = pending /\ resolutions' = resolutions
                 /\ wire' = wire /\ cur' = cur /\ msg_id' = msg_id
         /\ pc' # pc => pc' = "done"]_vars

\* A frame that would have printed, or the reply to a registered request,
\* was read after close and the loop ended.
C19_Witness ==
    /\ pc = "done"
    /\ \E n \in 1..Len(received) :
         /\ ~received[n].dispatched
         /\ \/ ProducesOutput(received[n].f)
            \/ received[n].f.kind = "reply" /\ received[n].f.id \in DOMAIN pending

\* -------------------------------------------------------------------- C20
\* C20: a reply whose request already ended by timeout is ignored silently:
\* handling it applies no resolution and prints no line.
C20_LateReplySilent ==
    [][(ReadStep /\ Last(received').f.kind = "reply"
          /\ \E i \in 1..Len(resolutions) :
                /\ resolutions[i].path = "timeout"
                /\ resolutions[i].id = Last(received').f.id)
         => out' = out /\ resolutions' = resolutions]_vars

\* ------------------------------------------------- observations of one event
\* Frame number n is a console call that was dispatched and handled to the end.
ConsoleHandled(n) ==
    Handled(n) /\ received[n].dispatched /\ received[n].f.kind = "console"

IsBlockOf(n, l) == l.frame = n /\ l.tag = "block"

\* The indented blocks of frame number n, in the order printed.
RECURSIVE BlocksFrom(_, _)
BlocksFrom(n, i) ==
    IF i > Len(out) THEN <<>>
    ELSE IF IsBlockOf(n, out[i]) THEN <<out[i].body[1]>> \o BlocksFrom(n, i + 1)
    ELSE BlocksFrom(n, i + 1)

\* The lines of frame number n, in the order printed.
RECURSIVE LinesFrom(_, _)
LinesFrom(n, i) ==
    IF i > Len(out) THEN <<>>
    ELSE IF out[i].frame = n THEN <<out[i]>> \o LinesFrom(n, i + 1)
    ELSE LinesFrom(n, i + 1)

\* The arguments shown as a block: an inline composite value or a preview.
ShownAsBlock(a) ==
    \/ a.has_value /\ a.composite
    \/ ~a.has_value /\ a.type = "object" /\ a.has_preview

RECURSIVE BlockArgs(_)
BlockArgs(args) ==
    IF args = <<>> THEN <<>>
    ELSE IF ShownAsBlock(Head(args)) THEN <<Head(args)>> \o BlockArgs(Tail(args))
    ELSE BlockArgs(Tail(args))

\* -------------------------------------------------------------------- C13
\* C13: the dict shown for a preview with overflow true has the entry
\* "..." -> "(truncated)" as its last entry.
C13_TruncationMarkerLast ==
    \A n \in 1..Len(received) :
        ConsoleHandled(n) =>
            LET shown == BlockArgs(received[n].f.args)
                blocks == BlocksFrom(n, 1)
            IN /\ Len(blocks) = Len(shown)
               /\ \A i \in 1..Len(shown) :
                    (shown[i].has_preview /\ shown[i].preview.overflow) =>
                        /\ blocks[i].entries # <<>>
                        /\ Last(blocks[i].entries) = <<"...", "(truncated)">>

\* -------------------------------------------------------------------- C14
\* C14: a console call with no argument prints nothing; with arguments it
\* prints one header line, "[console.<type>] " followed by the simple
\* results in argument order joined by single spaces, then one block per
\* complex result in argument order.  Arguments 5 and "x" give exactly
\* "[console.log] 5 x".
RECURSIVE SimpleResults(_)
SimpleResults(args) ==
    IF args = <<>> THEN <<>>
    ELSE LET a == Head(args)
         IN IF ShownAsBlock(a) THEN SimpleResults(Tail(args))
            ELSE <<IF a.has_value THEN a.value
                   ELSE IF a.type = "object" /\ a.objectId # "" THEN "[Object: timeout]"
                   ELSE IF a.has_description THEN a.description
                   ELSE IF a.type = "object" THEN "[Object]"
                   ELSE IF a.type = "undefined" THEN "undefined"
                   ELSE IF a.type = "null" THEN "null"
                   ELSE "str(arg)">> \o SimpleResults(Tail(args))

C14_ConsoleLineLayout ==
    \A n \in 1..Len(received) :
        ConsoleHandled(n) =>
            LET args == received[n].f.args
                lines == LinesFrom(n, 1)
            IN /\ args = <<>> => lines = <<>>
               /\ args # <<>> =>
                    /\ Len(lines) = 1 + Len(BlockArgs(args))
                    /\ lines[1].tag = "console"
                    /\ HeaderText(lines[1].body[1], Tail(lines[1].body))
                         = <<"[console.", received[n].f.text, "]", " ">>
                              \o Join(SimpleResults(args), " ")
                    /\ \A i \in 2..Len(lines) : lines[i].tag = "block"
                    /\ \A i \in 1..Len(BlockArgs(args)) :
                         LET a == BlockArgs(args)[i]
                             b == lines[i + 1].body[1]
                         IN IF a.has_value THEN b.kind = "json" /\ b.text = a.value
                            ELSE b.kind = "dict"
               /\ args = <<ScalarArg("5"), StringArg("x")>> =>
                    /\ Len(lines) = 1
                    /\ HeaderText(lines[1].body[1], Tail(lines[1].body))
                         = <<"[console.", "log", "]", " ", "5", " ", "x">>

\* A call with one simple and one complex result was printed on two lines.
C14_Witness ==
    \E n \in 1..Len(received) :
        /\ ConsoleHandled(n)
        /\ Len(received[n].f.args) = 2
        /\ Len(BlockArgs(received[n].f.args)) = 1
        /\ Len(LinesFrom(n, 1)) = 2

\* -------------------------------------------------------------------- C15
\* C15: an exception event prints exactly one line, the exception line,
\* whose message is the exception object's description if present, else the
\* event's text if present, else "Unknown error".
C15_ExceptionLine ==
    \A n \in 1..Len(received) :
        (received[n].dispatched /\ received[n].f.kind = "exception") =>
            LET f == received[n].f
                lines == LinesFrom(n, 1)
            IN /\ Len(lines) = 1
               /\ lines[1].tag = "exception"
               /\ f.has_desc => lines[1].body = <<f.desc>>
               /\ (~f.has_desc /\ f.has_text) => lines[1].body = <<f.text>>
               /\ (~f.has_desc /\ ~f.has_text) => lines[1].body = <<"Unknown error">>

\* An exception with both a description and a text was printed.
C15_Witness ==
    \E n \in 1..Len(received) :
        /\ received[n].dispatched /\ received[n].f.kind = "exception"
        /\ received[n].f.has_desc /\ received[n].f.has_text
        /\ LinesFrom(n, 1) # <<>>

\* -------------------------------------------------------------------- C12
\* C12: a call with max_depth = d >= 0 returns a dict or one of the fixed
\* texts, every Runtime.getProperties it sends is enclosed by at most d
\* others and is made with a max_depth that is not negative, and a call with
\* max_depth = 0 sends the one command for its own object and no other, also
\* when a property of that object names an object.
FetchResults ==
    {"[Object]", "[Object: timeout]", "[Object: ConnectionClosed]",
     "[Object: AttributeError]"}

C12_TotalAndDepthBounded ==
    (mat.phase = "returned" /\ mat.entry = "get_object_properties") =>
        /\ mat.node.is_dict \/ mat.node.text \in FetchResults
        /\ \A i \in 1..Len(mat.fetches) :
             /\ mat.fetches[i].level <= mat.max_depth
             /\ mat.fetches[i].max_depth >= 0
             /\ mat.fetches[i].level + mat.fetches[i].max_depth = mat.max_depth
        /\ mat.max_depth = 0 => Len(mat.fetches) = 1

\* A call with max_depth = 0 on an object one of whose properties names the
\* object itself returned a dict.
C12_Witness ==
    /\ mat.phase = "returned" /\ mat.entry = "get_object_properties"
    /\ mat.max_depth = 0
    /\ mat.heap[mat.object_id].kind = "props"
    /\ \E i \in 1..Len(mat.heap[mat.object_id].props) :
         mat.heap[mat.object_id].props[i].value.objectId = mat.object_id
    /\ mat.node.is_dict

\* -------------------------------------------------------------------- C17
\* C17: no Runtime.getProperties command is sent for a descriptor that
\* carries a preview, be it the argument format_arg is called with or the
\* value of a property met during a fetch.
C17_PreviewBeatsHandle ==
    mat.phase = "returned" =>
        \A i \in 1..Len(mat.fetches) : ~mat.fetches[i].preview

====
